---------------------------- MODULE Spec2Model ----------------------------
(***************************************************************************)
(* A model of awong0811/239p3: the layers of src/model.py                  *)
(* (SingleHeadAttention, MultiHeadAttention, LayerNorm, TransformerLayer,  *)
(* BigramLanguageModel, MiniGPT) and the training script src/train.py.     *)
(*                                                                         *)
(* Every unit of the program has a variable of its own (a record of the    *)
(* object's fields and of the position of the call in progress) and a      *)
(* specification of its own, in which the variables of the other units     *)
(* stay at their initial value.  Spec is the training script.              *)
(*                                                                         *)
(* Tensors are sequences (1-based: index i of the model is index i-1 of    *)
(* the source), shapes are sequences of dimensions.                        *)
(***************************************************************************)
EXTENDS Integers, Sequences, FiniteSets, TLC

VARIABLES
    sha,    \* a SingleHeadAttention and its forward call
    mha,    \* a MultiHeadAttention and its forward call
    ln,     \* a LayerNorm and its forward call
    tl,     \* a TransformerLayer and its forward call
    gpt,    \* a MiniGPT and its forward call
    lm,     \* a language model (bigram or MiniGPT), its forward and generate calls
    tr      \* the training script

vars == <<sha, mha, ln, tl, gpt, lm, tr>>

\* The variables a unit leaves alone.
NotSHA == <<mha, ln, tl, gpt, lm, tr>>

NotMHA == <<sha, ln, tl, gpt, lm, tr>>

NotLN == <<sha, mha, tl, gpt, lm, tr>>

NotTL == <<sha, mha, ln, gpt, lm, tr>>

NotGPT == <<sha, mha, ln, tl, lm, tr>>

NotLM == <<sha, mha, ln, tl, gpt, tr>>

NotTR == <<sha, mha, ln, tl, gpt, lm>>

(***************************************************************************)
(* Bounds of the model.                                                    *)
(***************************************************************************)
\* Largest max_len a SingleHeadAttention is constructed with.
MaxLen == 3

\* Largest input_dim / embed_dim of a layer.
MaxDim == 4

\* Largest num_heads of a MultiHeadAttention.
MaxHeads == 4

\* Largest batch_size of an input.
MaxBatch == 2

\* Largest num_tokens / seq_len of an input.
MaxTokens == 3

\* Largest token_dim of an input of LayerNorm.
LNMaxDim == 3

\* Largest config.num_layers of a MiniGPT.
MaxLayers == 2

\* Longest context handed to generate.
MaxContext == 2

\* Largest max_new_tokens handed to generate.
MaxNewTokens == 3

\* Largest number of batches of the training dataloader.
MaxBatches == 3

\* Largest config.log_interval.
MaxLogInterval == 2

(***************************************************************************)
(* Tensor helpers (torch).                                                 *)
(***************************************************************************)
RECURSIVE SumTo(_, _)
\* f[1] + ... + f[n]
SumTo(f, n) == IF n = 0 THEN 0 ELSE f[n] + SumTo(f, n - 1)

\* The element of a one-element set.  {F(v) : v \in {e}} evaluates e once and
\* hands F its value, where LET v == e IN F(v) evaluates e at every use of v.
Only(S) == CHOOSE v \in S : TRUE

Max(a, b) == IF a >= b THEN a ELSE b

Min(a, b) == IF a <= b THEN a ELSE b

\* torch.ones((r, c))
Ones(r, c) == [i \in 1..r |-> [j \in 1..c |-> 1]]

\* torch.triu(m, diagonal = d): keeps the entries with j - i >= d, zeroes the rest.
Triu(m, d) ==
    [i \in 1..Len(m) |-> [j \in 1..Len(m[i]) |-> IF j - i >= d THEN m[i][j] ELSE 0]]

\* torch.matmul of an (r x k) by a (k x c) matrix.
MatMul(a, b) ==
    [i \in 1..Len(a) |->
        [j \in 1..Len(b[1]) |-> SumTo([k \in 1..Len(b) |-> a[i][k] * b[k][j]], Len(b))]]

\* m.transpose(-2, -1)
Transpose(m) == [j \in 1..Len(m[1]) |-> [i \in 1..Len(m) |-> m[i][j]]]

\* nn.Linear(bias = False) applied to the rows of x: x W^T, W of shape (out x in).
LinearNoBias(w, x) == MatMul(x, Transpose(w))

\* math.sqrt on the perfect squares the model uses.
Sqrt(n) == CHOOSE r \in 0..n : r * r = n

(***************************************************************************)
(* SingleHeadAttention (src/model.py:110-193).                             *)
(*                                                                         *)
(* Numbers: the inputs are multiples of 10^5 and the weights are integers, *)
(* so every score is a multiple of 10^10.  An input entry v of the model   *)
(* is v * 10^5, a score s of the model is s * 10^10.                       *)
(***************************************************************************)
\* The fill value of masked scores, -1e10, in the model's score unit of 10^10.
MaskFill == -1

\* The input features, in units of 10^5.
XVals == {-2, 0, 1}

\* The entries of the projection weights.
WVals == {-1, 1}

\* input_dim of the modelled instance; output_key_query_dim and
\* output_value_dim are left None (a perfect square, so Sqrt is exact).
InputDims == {1}

\* The sequences of a batch: two, so that two inputs pass the same weights.
Batch == {1, 2}

\* The diagonal=0 variant of the mask: the diagonal is masked as well.
CausalMaskDiag0(max_len) == Triu(Ones(max_len, max_len), 0)

\* causal_mask = torch.triu(torch.ones((max_len, max_len)), diagonal = 1)
CausalMask(max_len) == Triu(Ones(max_len, max_len), 1)

\* exp(d) of a score difference d <= 0 in units of 10^10: exp(0) = 1, and
\* exp(-1e10) and below underflow to exactly 0.0 in floating point.
Exp(d) == IF d = 0 THEN 1 ELSE 0

RECURSIVE MaxOf(_, _)
\* the largest of row[1..n]
MaxOf(row, n) == IF n = 1 THEN row[1] ELSE Max(row[n], MaxOf(row, n - 1))

\* nn.functional.softmax(row, dim = -1) as exp(s - max) / sum(exp(s - max)):
\* the numerators and the common denominator.
Softmax(row) ==
    LET m == MaxOf(row, Len(row))
        e == [j \in 1..Len(row) |-> Exp(row[j] - m)]
    IN  [num |-> e, den |-> SumTo(e, Len(row))]

\* self.causal_mask[0:r, 0:c]: slicing stops at the buffer's edge.
MaskSlice(mask, r, c) ==
    [i \in 1..Min(r, Len(mask)) |-> [j \in 1..Min(c, Len(mask)) |-> mask[i][j]]]

\* out.masked_fill_(M == 1, fill)
MaskedFill(out, M, fill) ==
    [i \in 1..Len(out) |->
        [j \in 1..Len(out[i]) |-> IF M[i][j] = 1 THEN fill ELSE out[i][j]]]

\* nn.Dropout in eval mode (or p = 0): the identity.
DropoutOff(t) == t

\* SingleHeadAttention.forward on one sequence x (n tokens of input_dim features):
\* the attention weights (a softmax per query row) and the output rows,
\* row i being (sum_j num[i][j] * V[j]) / den[i].
AttentionForward(a, x) ==
    LET Q == LinearNoBias(a.query, x)
        K == LinearNoBias(a.key, x)
        qk == MatMul(Q, Transpose(K))
        out == [i \in 1..Len(x) |->
                   [j \in 1..Len(x) |-> qk[i][j] \div Sqrt(a.output_key_query_dim)]]
        M == MaskSlice(a.causal_mask, Len(x), Len(x))
    IN  Only({ [attn |-> w,
                out |-> [i \in 1..Len(x) |->
                           [num |-> MatMul(<<w[i].num>>, V)[1], den |-> w[i].den]]] :
               V \in {LinearNoBias(a.value, x)},
               w \in { DropoutOff([i \in 1..Len(x) |-> Softmax(filled[i])]) :
                         filled \in {MaskedFill(out, M, MaskFill)} } })

\* The sequences of n tokens of d features.
Tokens(d) == [1..d -> XVals]

Seqs(n, d) == [1..n -> Tokens(d)]

\* The (out x in) weight matrices.
Weights(o, i) == [1..o -> [1..i -> WVals]]

SHAInit ==
    sha = [pc |-> "new", input_dim |-> 0, output_key_query_dim |-> 0,
           output_value_dim |-> 0, max_len |-> 0,
           query |-> <<>>, key |-> <<>>, value |-> <<>>, causal_mask |-> <<>>,
           x |-> <<>>, res |-> <<>>]

\* SingleHeadAttention.__init__(input_dim, max_len = max_len)
SHAConstruct ==
    /\ sha.pc = "new"
    /\ \E input_dim \in InputDims, max_len \in 1..MaxLen :
         \E wq \in Weights(input_dim, input_dim), wk \in Weights(input_dim, input_dim),
            wv \in Weights(input_dim, input_dim) :
            sha' = [sha EXCEPT !.pc = "ready", !.input_dim = input_dim,
                               !.output_key_query_dim = input_dim,
                               !.output_value_dim = input_dim,
                               !.max_len = max_len,
                               !.query = wq, !.key = wk, !.value = wv,
                               !.causal_mask = CausalMask(max_len)]
    /\ UNCHANGED NotSHA

\* SingleHeadAttention.forward(x), x of shape (2, n, input_dim) with n <= max_len.
\* (masked_fill_ raises on a longer input: M is max_len x max_len, out is n x n.)
SHAForward ==
    /\ sha.pc = "ready"
    /\ \E n \in 1..sha.max_len :
         \E x \in [Batch -> Seqs(n, sha.input_dim)] :
            sha' = [sha EXCEPT !.pc = "done", !.x = x,
                               !.res = [b \in Batch |-> AttentionForward(sha, x[b])]]
    /\ UNCHANGED NotSHA

SHANext == SHAConstruct \/ SHAForward

(***************************************************************************)
(* Shapes.  A tensor's shape is the sequence of its dimensions; Raised is  *)
(* the outcome of an operation torch refuses with a RuntimeError.          *)
(***************************************************************************)
Raised == <<-1>>

Last(s) == s[Len(s)]

Front(s) == SubSeq(s, 1, Len(s) - 1)

\* The dimension of s that is k places from the right (k = 0 is the last one),
\* 1 where s is shorter: torch's broadcasting aligns shapes on the right.
DimFromRight(s, k) == IF k < Len(s) THEN s[Len(s) - k] ELSE 1

\* The shape of a + b, a * b, ... under torch's broadcasting rules.
BroadcastShape(a, b) ==
    LET n == Max(Len(a), Len(b))
        ok == \A k \in 0..(n - 1) :
                  \/ DimFromRight(a, k) = DimFromRight(b, k)
                  \/ DimFromRight(a, k) = 1
                  \/ DimFromRight(b, k) = 1
    IN  IF a = Raised \/ b = Raised \/ ~ok THEN Raised
        ELSE [i \in 1..n |-> Max(DimFromRight(a, n - i), DimFromRight(b, n - i))]

\* nn.Linear(in_features, out_features) applied to a tensor of shape s.
LinearShape(in_features, out_features, s) ==
    IF s = Raised \/ Len(s) = 0 \/ Last(s) # in_features THEN Raised
    ELSE Front(s) \o <<out_features>>

\* torch.matmul of batched matrices (..., r, k) and (..., k, c).
MatMulShape(a, b) ==
    IF a = Raised \/ b = Raised \/ Len(a) < 2 \/ Len(b) < 2 THEN Raised
    ELSE IF Last(a) # b[Len(b) - 1] THEN Raised
    ELSE LET lead == BroadcastShape(SubSeq(a, 1, Len(a) - 2), SubSeq(b, 1, Len(b) - 2))
         IN  IF lead = Raised /\ Len(a) > 2 THEN Raised
             ELSE (IF Len(a) > 2 THEN lead ELSE <<>>) \o <<a[Len(a) - 1], Last(b)>>

\* t.transpose(-2, -1)
TransposeShape(s) ==
    IF s = Raised \/ Len(s) < 2 THEN Raised
    ELSE SubSeq(s, 1, Len(s) - 2) \o <<Last(s), s[Len(s) - 1]>>

RECURSIVE CatWidth(_, _)
\* The summed last dimension of shapes[1..n].
CatWidth(shapes, n) == IF n = 0 THEN 0 ELSE Last(shapes[n]) + CatWidth(shapes, n - 1)

\* torch.cat(values, dim = -1): the tensors agree on every dimension but the last.
CatShape(shapes) ==
    IF \E i \in 1..Len(shapes) : shapes[i] = Raised THEN Raised
    ELSE IF \E i \in 1..Len(shapes) : Front(shapes[i]) # Front(shapes[1]) THEN Raised
    ELSE Front(shapes[1]) \o <<CatWidth(shapes, Len(shapes))>>

\* max_len = 512, the default SingleHeadAttention is constructed with by
\* MultiHeadAttention.
DefaultMaxLen == 512

\* SingleHeadAttention.__init__: `if output_key_query_dim:` takes 0 like None.
OrInputDim(dim, input_dim) == IF dim # 0 THEN dim ELSE input_dim

\* The fields of SingleHeadAttention(input_dim, output_key_query_dim, output_value_dim).
SingleHead(input_dim, output_key_query_dim, output_value_dim) ==
    [input_dim |-> input_dim,
     output_key_query_dim |-> OrInputDim(output_key_query_dim, input_dim),
     output_value_dim |-> OrInputDim(output_value_dim, input_dim),
     max_len |-> DefaultMaxLen]

\* The shape SingleHeadAttention.forward returns for an input of shape s.
SingleHeadShape(h, s) ==
    LET Q == LinearShape(h.input_dim, h.output_key_query_dim, s)
        K == LinearShape(h.input_dim, h.output_key_query_dim, s)
        V == LinearShape(h.input_dim, h.output_value_dim, s)
        out == MatMulShape(Q, TransposeShape(K))
        M == IF out = Raised THEN Raised
             ELSE <<Min(out[Len(out) - 1], h.max_len), Min(Last(out), h.max_len)>>
        filled == IF BroadcastShape(out, M) = out THEN out ELSE Raised
    IN  MatMulShape(filled, V)

\* Every head gets the full input width: the division by num_heads is forgotten.
HeadDimUndivided(input_dim, num_heads) == input_dim

\* head_dim = int(self.input_dim / num_heads)
HeadDim(input_dim, num_heads) == input_dim \div num_heads

\* MultiHeadAttention.__init__(input_dim, num_heads)
MultiHead(input_dim, num_heads) ==
    [input_dim |-> input_dim, num_heads |-> num_heads,
     heads |-> [i \in 1..num_heads |->
                  SingleHead(input_dim, HeadDim(input_dim, num_heads),
                             HeadDim(input_dim, num_heads))],
     out_in |-> input_dim, out_out |-> input_dim]

\* The shape of the concatenated head outputs in MultiHeadAttention.forward.
MultiHeadCatShape(m, s) ==
    CatShape([i \in 1..m.num_heads |-> SingleHeadShape(m.heads[i], s)])

\* The shape MultiHeadAttention.forward returns for an input of shape s.
MultiHeadShape(m, s) == LinearShape(m.out_in, m.out_out, MultiHeadCatShape(m, s))

MHAInit ==
    mha = [pc |-> "new", m |-> MultiHead(1, 1), x |-> <<>>, cat |-> <<>>, out |-> <<>>]

\* MultiHeadAttention.__init__(input_dim, num_heads)
MHAConstruct ==
    /\ mha.pc = "new"
    /\ \E input_dim \in 1..MaxDim, num_heads \in 1..MaxHeads :
         mha' = [mha EXCEPT !.pc = "ready", !.m = MultiHead(input_dim, num_heads)]
    /\ UNCHANGED NotMHA

\* MultiHeadAttention.forward(x), x of shape (batch_size, num_tokens, input_dim)
MHAForward ==
    /\ mha.pc = "ready"
    /\ \E batch_size \in 1..MaxBatch, num_tokens \in 1..MaxTokens :
         LET x == <<batch_size, num_tokens, mha.m.input_dim>>
         IN  mha' = [mha EXCEPT !.pc = "done", !.x = x,
                                !.cat = MultiHeadCatShape(mha.m, x),
                                !.out = MultiHeadShape(mha.m, x)]
    /\ UNCHANGED NotMHA

MHANext == MHAConstruct \/ MHAForward

(***************************************************************************)
(* Exact rational numbers [n, d], d > 0, in lowest terms: the real-number  *)
(* value of the floating-point computations of LayerNorm.                  *)
(***************************************************************************)
Abs(a) == IF a < 0 THEN -a ELSE a

RECURSIVE GCD(_, _)
GCD(a, b) == IF b = 0 THEN a ELSE GCD(b, a % b)

Frac(n, d) ==
    LET g == GCD(Abs(n), Abs(d))
        sgn == IF d < 0 THEN -1 ELSE 1
    IN  [n |-> sgn * (n \div g), d |-> sgn * (d \div g)]

RInt(k) == [n |-> k, d |-> 1]

RAdd(a, b) ==
    LET g == GCD(a.d, b.d)
    IN  Frac(a.n * (b.d \div g) + b.n * (a.d \div g), (a.d \div g) * b.d)

RNeg(a) == [n |-> -a.n, d |-> a.d]

RSub(a, b) == RAdd(a, RNeg(b))

RMul(a, b) ==
    LET g1 == GCD(Abs(a.n), b.d)
        g2 == GCD(Abs(b.n), a.d)
    IN  Frac((a.n \div g1) * (b.n \div g2), (a.d \div g2) * (b.d \div g1))

\* a / b, b # 0
RDiv(a, b) == RMul(a, IF b.n < 0 THEN [n |-> -b.d, d |-> -b.n] ELSE [n |-> b.d, d |-> b.n])

RECURSIVE RSum(_, _)
\* f[1] + ... + f[n]
RSum(f, n) == IF n = 0 THEN RInt(0) ELSE RAdd(f[n], RSum(f, n - 1))

\* torch.mean(t, dim = -1) of one token
RMean(t) == RDiv(RSum(t, Len(t)), RInt(Len(t)))

\* torch.var(t, dim = -1, correction = c) of one token:
\* sum((t - mean)^2) / max(0, N - c); 0 / 0 is nan, written 0 / 1 here and
\* reached only with correction = 1 on a single feature.
RVar(t, c) ==
    LET m == RMean(t)
        sq == [k \in 1..Len(t) |-> RMul(RSub(t[k], m), RSub(t[k], m))]
    IN  IF Len(t) - c <= 0 THEN RInt(0)
        ELSE RDiv(RSum(sq, Len(t)), RInt(Len(t) - c))

(***************************************************************************)
(* LayerNorm (src/model.py:313-352).                                       *)
(***************************************************************************)
\* 1 / eps for eps = 1e-05, the default of LayerNorm.__init__.
EpsInv == 100000

Eps == Frac(1, EpsInv)

\* The input features of LayerNorm.
LNVals == {-1, 0, 2}

\* The numbers of tokens of an input of LayerNorm.
LNTokens == {1, 2}

\* torch.var(input, dim = -1, correction = 1): the unbiased estimate.
UnbiasedVariance(t) == RVar(t, 1)

\* variance = torch.var(input, dim = -1, correction = 0)
BiasedVariance(t) == RVar(t, 0)

\* LayerNorm.__init__(normalized_shape): gamma = ones, beta = zeros.
LayerNormNew(normalized_shape) ==
    [normalized_shape |-> normalized_shape, eps |-> Eps,
     gamma |-> [k \in 1..normalized_shape |-> RInt(1)],
     beta |-> [k \in 1..normalized_shape |-> RInt(0)]]

\* LayerNorm.forward on one token t (a sequence of rationals).  The square
\* root is kept symbolic: feature k of the result is
\*     scaled[k] / sqrt(radicand) + shift[k]
\* with scaled[k] = (t[k] - mean) * gamma[k], radicand = variance + eps and
\* shift[k] = beta[k].
LayerNormToken(l, t) ==
    LET mean == RMean(t)
        variance == BiasedVariance(t)
    IN  [scaled |-> [k \in 1..Len(t) |-> RMul(RSub(t[k], mean), l.gamma[k])],
         radicand |-> RAdd(variance, l.eps),
         shift |-> [k \in 1..Len(t) |-> l.beta[k]]]

\* LayerNorm.forward on a tensor of shape (num_tokens, token_dim).
LayerNormForward(l, input) ==
    [i \in 1..Len(input) |->
        LayerNormToken(l, [k \in 1..Len(input[i]) |-> RInt(input[i][k])])]

LNInit == ln = [pc |-> "new", l |-> LayerNormNew(1), input |-> <<>>, out |-> <<>>]

\* LayerNorm.__init__(normalized_shape)
LNConstruct ==
    /\ ln.pc = "new"
    /\ \E token_dim \in 1..LNMaxDim :
         ln' = [ln EXCEPT !.pc = "ready", !.l = LayerNormNew(token_dim)]
    /\ UNCHANGED NotLN

\* LayerNorm.forward(input), input of shape (num_tokens, token_dim)
LNForward ==
    /\ ln.pc = "ready"
    /\ \E num_tokens \in LNTokens :
         \E input \in [1..num_tokens -> [1..ln.l.normalized_shape -> LNVals]] :
            ln' = [ln EXCEPT !.pc = "done", !.input = input,
                             !.out = LayerNormForward(ln.l, input)]
    /\ UNCHANGED NotLN

LNNext == LNConstruct \/ LNForward

(***************************************************************************)
(* FeedForwardLayer, LayerNorm and TransformerLayer on shapes              *)
(* (src/model.py:258-409).                                                 *)
(***************************************************************************)
\* The shape LayerNorm(normalized_shape).forward returns for an input of shape s:
\* mean and variance drop the last axis and get it back as 1 (unsqueeze(-1)),
\* then everything broadcasts against input, gamma and beta.
LayerNormShape(normalized_shape, s) ==
    IF s = Raised \/ Len(s) = 0 THEN Raised
    ELSE LET mean == Front(s) \o <<1>>
             variance == Front(s) \o <<1>>
             centred == BroadcastShape(s, mean)
             scaled == BroadcastShape(BroadcastShape(centred, variance),
                                      <<normalized_shape>>)
         IN  BroadcastShape(scaled, <<normalized_shape>>)

\* FeedForwardLayer(input_dim): feedforward_dim = input_dim * 4; fc1, GELU, fc2, dropout.
FeedForwardShape(input_dim, s) ==
    LinearShape(input_dim * 4, input_dim, LinearShape(input_dim, input_dim * 4, s))

\* TransformerLayer.__init__(input_dim, num_heads, feedforward_dim): the third
\* argument is not passed on to FeedForwardLayer.
TransformerLayerNew(input_dim, num_heads) ==
    [input_dim |-> input_dim, attention |-> MultiHead(input_dim, num_heads)]

\* The shape TransformerLayer.forward returns for an input of shape s.
TransformerLayerShape(t, s) ==
    LET out1 == LayerNormShape(t.input_dim, s)
        out2 == MultiHeadShape(t.attention, out1)
        cache == BroadcastShape(out2, s)
        out3 == LayerNormShape(t.input_dim, cache)
        out4 == FeedForwardShape(t.input_dim, out3)
    IN  BroadcastShape(out4, cache)

(***************************************************************************)
(* TransformerLayer.forward on values (src/model.py:386-407).              *)
(*                                                                         *)
(* The residual stream is one number per call.  A sublayer, with its       *)
(* parameters and the dropout mask of the call fixed, is a function of     *)
(* its input; the model ranges over all of them.                           *)
(***************************************************************************)
\* The inputs x and the outputs of a sublayer.
TLVals == {0, 1}

\* The values of x + sublayer(x).
TLSums == {a + b : a \in TLVals, b \in TLVals}

\* The residual is dropped: the sublayer output replaces the stream.
NoResidual(out, stream) == out

\* cache = out + x, out = out + cache
ResidualAdd(out, stream) == out + stream

TLInit ==
    tl = [pc |-> "new", norm1 |-> <<>>, attention |-> <<>>, norm2 |-> <<>>,
          feedforward |-> <<>>, x |-> 0, out |-> 0, cache |-> 0, calls |-> <<>>]

\* TransformerLayer.__init__: the four sublayers.
TLConstruct ==
    /\ tl.pc = "new"
    /\ \E norm1 \in [TLVals -> TLVals], attention \in [TLVals -> TLVals],
          norm2 \in [TLSums -> TLVals], feedforward \in [TLVals -> TLVals] :
         tl' = [tl EXCEPT !.pc = "ready", !.norm1 = norm1, !.attention = attention,
                          !.norm2 = norm2, !.feedforward = feedforward]
    /\ UNCHANGED NotTL

\* forward(x) is entered
TLCall ==
    /\ tl.pc = "ready"
    /\ \E x \in TLVals : tl' = [tl EXCEPT !.pc = "norm1", !.x = x]
    /\ UNCHANGED NotTL

\* out = self.norm1(x)
TLNorm1 ==
    /\ tl.pc = "norm1"
    /\ tl' = [tl EXCEPT !.pc = "attention", !.out = tl.norm1[tl.x],
                        !.calls = Append(@, [layer |-> "norm1", input |-> tl.x])]
    /\ UNCHANGED NotTL

\* out = self.attention(out)
TLAttention ==
    /\ tl.pc = "attention"
    /\ tl' = [tl EXCEPT !.pc = "add1", !.out = tl.attention[tl.out],
                        !.calls = Append(@, [layer |-> "attention", input |-> tl.out])]
    /\ UNCHANGED NotTL

\* cache = out + x
TLAdd1 ==
    /\ tl.pc = "add1"
    /\ tl' = [tl EXCEPT !.pc = "norm2", !.cache = ResidualAdd(tl.out, tl.x)]
    /\ UNCHANGED NotTL

\* out = self.norm2(cache)
TLNorm2 ==
    /\ tl.pc = "norm2"
    /\ tl' = [tl EXCEPT !.pc = "feedforward", !.out = tl.norm2[tl.cache],
                        !.calls = Append(@, [layer |-> "norm2", input |-> tl.cache])]
    /\ UNCHANGED NotTL

\* out = self.feedforward(out)
TLFeedForward ==
    /\ tl.pc = "feedforward"
    /\ tl' = [tl EXCEPT !.pc = "add2", !.out = tl.feedforward[tl.out],
                        !.calls = Append(@, [layer |-> "feedforward", input |-> tl.out])]
    /\ UNCHANGED NotTL

\* out = out + cache; return out
TLAdd2 ==
    /\ tl.pc = "add2"
    /\ tl' = [tl EXCEPT !.pc = "done", !.out = ResidualAdd(tl.out, tl.cache)]
    /\ UNCHANGED NotTL

TLNext ==
    \/ TLConstruct \/ TLCall \/ TLNorm1 \/ TLAttention
    \/ TLAdd1 \/ TLNorm2 \/ TLFeedForward \/ TLAdd2

(***************************************************************************)
(* MiniGPT (src/model.py:412-538) on shapes.                               *)
(***************************************************************************)
\* config.vocab_size
VocabSizes == {5}

\* The configurations a MiniGPT is constructed with.
GPTConfigs ==
    [vocab_size : VocabSizes, embed_dim : 1..MaxDim, num_heads : 1..MaxHeads,
     num_layers : 0..MaxLayers, context_length : 1..MaxTokens]

\* if x.dim() < 2: x = x.unsqueeze(0)
Unsqueeze0(x) == IF Len(x) < 2 THEN <<1>> \o x ELSE x

\* nn.Embedding(num_embeddings, embedding_dim) applied to indices of shape s.
EmbeddingShape(embedding_dim, s) == s \o <<embedding_dim>>

\* out = self.vocab_embedding(x), after the unsqueeze of a 1-D x
GPTEmbedShape(c, x) == EmbeddingShape(c.embed_dim, Unsqueeze0(x))

\* The slice is forgotten: all context_length positional embeddings are added.
PositionUnsliced(c, out) == <<c.context_length, c.embed_dim>>

\* position = self.positional_embedding(self.pos)[:out.size(-2), :]
PositionShape(c, out) == <<Min(out[Len(out) - 1], c.context_length), c.embed_dim>>

\* out = out + position
GPTAddPositionShape(c, out) == BroadcastShape(out, PositionShape(c, out))

\* self.transformer_layers[i], as built by MiniGPT.__init__
GPTLayer(c) == TransformerLayerNew(c.embed_dim, c.num_heads)

\* out = self.prehead_norm(out)
GPTNormShape(c, out) == LayerNormShape(c.embed_dim, out)

\* out = self.head(out), head = nn.Linear(embed_dim, vocab_size)
GPTHeadShape(c, out) == LinearShape(c.embed_dim, c.vocab_size, out)

RECURSIVE GPTLayersShape(_, _, _)
\* for transformer in self.transformer_layers: out = transformer(out)
GPTLayersShape(c, n, out) ==
    IF n = 0 THEN out
    ELSE Only({ TransformerLayerShape(GPTLayer(c), prev) :
                  prev \in {GPTLayersShape(c, n - 1, out)} })

\* The shape MiniGPT.forward returns for an input of shape x.
MiniGPTShape(c, x) ==
    Only({ GPTHeadShape(c, normed) :
      normed \in { GPTNormShape(c, layered) :
        layered \in { GPTLayersShape(c, c.num_layers, positioned) :
          positioned \in { GPTAddPositionShape(c, embedded) :
            embedded \in {GPTEmbedShape(c, x)} } } } })

\* The position after a stage: an exception leaves forward.
After(out, next) == IF out = Raised THEN "raised" ELSE next

Stage(name, index) == [stage |-> name, index |-> index]

GPTInit ==
    gpt = [pc |-> "new", config |-> [vocab_size |-> 0, embed_dim |-> 0, num_heads |-> 0,
                                    num_layers |-> 0, context_length |-> 0],
           x |-> <<>>, out |-> <<>>, i |-> 0, trace |-> <<>>]

\* MiniGPT.__init__(config)
GPTConstruct ==
    /\ gpt.pc = "new"
    /\ \E c \in GPTConfigs : gpt' = [gpt EXCEPT !.pc = "ready", !.config = c]
    /\ UNCHANGED NotGPT

\* forward(x) is entered, x of shape (batch_size, seq_len) or (seq_len,)
GPTCall ==
    /\ gpt.pc = "ready"
    /\ \E seq_len \in 1..MaxTokens :
         \E x \in {<<seq_len>>} \cup {<<b, seq_len>> : b \in 1..MaxBatch} :
            gpt' = [gpt EXCEPT !.pc = "embed", !.x = x]
    /\ UNCHANGED NotGPT

\* out = self.vocab_embedding(x)
GPTEmbed ==
    /\ gpt.pc = "embed"
    /\ LET out == GPTEmbedShape(gpt.config, gpt.x)
       IN  gpt' = [gpt EXCEPT !.pc = After(out, "position"), !.out = out,
                             !.trace = Append(@, Stage("vocab_embedding", 0))]
    /\ UNCHANGED NotGPT

\* position = ...; out = out + position
GPTPosition ==
    /\ gpt.pc = "position"
    /\ LET out == GPTAddPositionShape(gpt.config, gpt.out)
       IN  gpt' = [gpt EXCEPT !.pc = After(out, "dropout"), !.out = out,
                             !.trace = Append(@, Stage("positional_embedding", 0))]
    /\ UNCHANGED NotGPT

\* out = self.embed_dropout(out)
GPTDropout ==
    /\ gpt.pc = "dropout"
    /\ gpt' = [gpt EXCEPT !.pc = "layers", !.i = 0,
                          !.trace = Append(@, Stage("embed_dropout", 0))]
    /\ UNCHANGED NotGPT

\* one round of the loop over self.transformer_layers: out = transformer(out)
GPTTransformer ==
    /\ gpt.pc = "layers"
    /\ gpt.i < gpt.config.num_layers
    /\ LET out == TransformerLayerShape(GPTLayer(gpt.config), gpt.out)
       IN  gpt' = [gpt EXCEPT !.pc = After(out, "layers"), !.out = out, !.i = @ + 1,
                             !.trace = Append(@, Stage("transformer_layers", gpt.i + 1))]
    /\ UNCHANGED NotGPT

\* the loop is over: out = self.prehead_norm(out)
GPTNorm ==
    /\ gpt.pc = "layers"
    /\ gpt.i = gpt.config.num_layers
    /\ LET out == GPTNormShape(gpt.config, gpt.out)
       IN  gpt' = [gpt EXCEPT !.pc = After(out, "head"), !.out = out,
                             !.trace = Append(@, Stage("prehead_norm", 0))]
    /\ UNCHANGED NotGPT

\* out = self.head(out); return out
GPTHead ==
    /\ gpt.pc = "head"
    /\ LET out == GPTHeadShape(gpt.config, gpt.out)
       IN  gpt' = [gpt EXCEPT !.pc = After(out, "done"), !.out = out,
                             !.trace = Append(@, Stage("head", 0))]
    /\ UNCHANGED NotGPT

GPTNext ==
    \/ GPTConstruct \/ GPTCall \/ GPTEmbed \/ GPTPosition
    \/ GPTDropout \/ GPTTransformer \/ GPTNorm \/ GPTHead

(***************************************************************************)
(* BigramLanguageModel (src/model.py:10-107) and the generate method of    *)
(* both language models (src/model.py:77-106, 517-536).                    *)
(***************************************************************************)
\* input_stream[-1:], the window BigramLanguageModel.generate feeds to forward.
BigramWindow == 1

\* input_stream[-10:], the window MiniGPT.generate feeds to forward.
GPTWindow == 10

\* config.context_length of the language models generate is run on.
LMContextLengths == {1, 2, 10}

\* The configurations of the language models: two tokens, and heads that
\* divide the embedding, so that the transformer layers run.
LMConfigs ==
    [vocab_size : {2}, embed_dim : {2}, num_heads : {1, 2}, num_layers : {1},
     context_length : LMContextLengths]

\* The shape BigramLanguageModel.forward returns for an input of shape x:
\* unsqueeze of a 1-D x, embeddings, linear, dropout.
BigramShape(c, x) ==
    LinearShape(c.embed_dim, c.vocab_size, EmbeddingShape(c.embed_dim, Unsqueeze0(x)))

\* self.forward(x) of the model m
ForwardShape(m, x) ==
    IF m.kind = "bigram" THEN BigramShape(m.config, x) ELSE MiniGPTShape(m.config, x)

\* The number of trailing tokens generate hands to forward.
Window(m) == IF m.kind = "bigram" THEN BigramWindow ELSE GPTWindow

\* input_stream[-w:]
LastTokens(stream, w) == SubSeq(stream, Max(1, Len(stream) - w + 1), Len(stream))

\* prob[:, -1, :] of a tensor of shape s: it takes three axes.
SelectLastShape(s) == IF s = Raised \/ Len(s) # 3 THEN Raised ELSE <<s[1], s[3]>>

\* The outcomes of torch.multinomial(last_token_prob, num_samples = 1).view(-1)
\* for last_token_prob of shape p = (rows, classes): a class index per row.
Multinomial(p) == [1..p[1] -> 0..(p[2] - 1)]

\* The sequences of 1..n tokens of a vocabulary of v.
Contexts(n, v) == UNION {[1..len -> 0..(v - 1)] : len \in 1..n}

LMInit ==
    lm = [pc |-> "new", kind |-> "", config |-> [vocab_size |-> 0, embed_dim |-> 0,
                        num_heads |-> 0, num_layers |-> 0, context_length |-> 0],
          x |-> <<>>, out |-> <<>>,
          context |-> <<>>, max_new_tokens |-> 0, input_stream |-> <<>>, i |-> 0]

\* BigramLanguageModel.__init__(config) or MiniGPT.__init__(config)
LMConstruct ==
    /\ lm.pc = "new"
    /\ \E kind \in {"bigram", "minigpt"}, c \in LMConfigs :
         lm' = [lm EXCEPT !.pc = "ready", !.kind = kind, !.config = c]
    /\ UNCHANGED NotLM

\* forward(x): a batch of single tokens for the bigram model, a batch of
\* sequences no longer than the context for MiniGPT.
LMForward ==
    /\ lm.pc = "ready"
    /\ \E batch_size \in 1..MaxBatch, seq_len \in 1..MaxTokens :
         /\ lm.kind = "bigram" => seq_len = 1
         /\ lm.kind = "minigpt" => seq_len <= lm.config.context_length
         /\ lm' = [lm EXCEPT !.pc = "returned", !.x = <<batch_size, seq_len>>,
                             !.out = ForwardShape(lm, <<batch_size, seq_len>>)]
    /\ UNCHANGED NotLM

\* generate(context, max_new_tokens) is entered: input_stream = context
LMGenerate ==
    /\ lm.pc = "ready"
    /\ \E context \in Contexts(MaxContext, lm.config.vocab_size),
          max_new_tokens \in 0..MaxNewTokens :
         lm' = [lm EXCEPT !.pc = "loop", !.context = context,
                          !.max_new_tokens = max_new_tokens,
                          !.input_stream = context, !.i = 0]
    /\ UNCHANGED NotLM

\* One round of `for i in range(max_new_tokens)`: forward on the window,
\* softmax, the last position's distribution, one sample, the concatenation.
LMSample ==
    /\ lm.pc = "loop"
    /\ lm.i < lm.max_new_tokens
    /\ \E context \in {LastTokens(lm.input_stream, Window(lm))} :
       \E output \in {ForwardShape(lm, <<Len(context)>>)} :
       \E prob \in {output} :
       \E last_token_prob \in {SelectLastShape(prob)} :
          IF last_token_prob = Raised
          THEN lm' = [lm EXCEPT !.pc = "raised"]
          ELSE \E pred \in Multinomial(last_token_prob) :
                  lm' = [lm EXCEPT !.input_stream = @ \o pred, !.i = @ + 1]
    /\ UNCHANGED NotLM

\* the loop is over: return input_stream
LMReturn ==
    /\ lm.pc = "loop"
    /\ lm.i = lm.max_new_tokens
    /\ lm' = [lm EXCEPT !.pc = "done"]
    /\ UNCHANGED NotLM

LMNext == LMConstruct \/ LMForward \/ LMGenerate \/ LMSample \/ LMReturn

(***************************************************************************)
(* The parameters of MiniGPT that weight tying concerns                    *)
(* (src/model.py:435-464, 497-515) and the training script                 *)
(* (src/train.py:20-138).  A parameter tensor is an identity (a number)    *)
(* and store holds the value of every tensor the model reaches; a module's *)
(* weight is the identity of the tensor its attribute is bound to.         *)
(***************************************************************************)
\* The values of a parameter tensor.
ParamVals == {0, 1}

\* if iteration==5000: break
IterationCap == 5000

\* best_train_loss = 1000.0
InitialBestLoss == 1000

\* The values of a batch's loss: two below the first best_train_loss, one not.
LossVals == {1, 2, InitialBestLoss}

\* num_batches = 20: the batches of one validation
NumValBatches == 20

\* The modules of MiniGPT that own the embedding table and the head's matrix,
\* in the order self.apply visits them.
Modules == <<"vocab_embedding", "head">>

\* nn.Embedding(...) and nn.Linear(...) each allocate a weight of their own.
NewParameters(draw) ==
    [weight |-> [vocab_embedding |-> 1, head |-> 2],
     store |-> [t \in {1, 2} |-> draw[t]],
     training |-> TRUE]

\* model.parameters(): every tensor a module reaches, once.
Parameters(m) == {m.weight[Modules[k]] : k \in 1..Len(Modules)}

\* The tensors no attribute is bound to any more are gone.
Reachable(m) == [m EXCEPT !.store = [t \in Parameters(m) |-> m.store[t]]]

\* What a buggy tie would do: the head keeps a tensor of its own and receives
\* the embedding's values.
TieByCopy(m) ==
    [m EXCEPT !.store[m.weight.head] = m.store[m.weight.vocab_embedding]]

\* self.head.weight = self.vocab_embedding.weight
TieWeights(m) == Reachable([m EXCEPT !.weight.head = m.weight.vocab_embedding])

RECURSIVE ApplyInitWeights(_, _, _)
\* self.apply(self._init_weights) over the first n modules: an Embedding or a
\* Linear has its weight overwritten in place by torch.nn.init.normal_.
ApplyInitWeights(m, draw, n) ==
    IF n = 0 THEN m
    ELSE LET before == ApplyInitWeights(m, draw, n - 1)
         IN  [before EXCEPT !.store[before.weight[Modules[n]]] = draw[n]]

\* MiniGPT.__init__(config) with the values the random initialisers draw.
MiniGPTNew(config, draw0, draw) ==
    LET built == NewParameters(draw0)
        tied == IF config.weight_tie THEN TieWeights(built) ELSE built
    IN  ApplyInitWeights(tied, draw, Len(Modules))

\* model.state_dict(): the value under every module's name.
StateDict(m) ==
    [k \in {Modules[i] : i \in 1..Len(Modules)} |-> m.store[m.weight[k]]]

\* optimizer.step(): every parameter handed to the optimizer is updated in place.
OptimizerStep(m, params, update) ==
    [m EXCEPT !.store = [t \in DOMAIN m.store |->
                            IF t \in params THEN update[t] ELSE m.store[t]]]

\* iteration%config.log_interval == 0
LogDue(iteration, log_interval) == iteration % log_interval = 0

\* An entry wandb.log records; at is the value of iteration at the call.
LogEntry(key, value, at) == [key |-> key, value |-> value, at |-> at]

\* The configurations of the script.
TRConfigs ==
    [weight_tie : BOOLEAN, to_log : BOOLEAN, log_interval : 1..MaxLogInterval]

TRInit ==
    tr = [pc |-> "new",
          config |-> [weight_tie |-> FALSE, to_log |-> FALSE, log_interval |-> 1],
          model |-> [weight |-> <<>>, store |-> <<>>, training |-> FALSE],
          wandb_run |-> FALSE, device |-> "", num_batches |-> 0,
          optimizer |-> {}, checkpoint |-> <<>>, best_train_loss |-> 0,
          iteration |-> 0, loss |-> 0, losses |-> <<>>, forward_params |-> <<>>,
          log |-> <<>>]

\* The script up to the training code: the model, wandb.init when
\* config.to_log, the dataloader (num_batches batches), the device.
TRConstruct ==
    /\ tr.pc = "new"
    /\ \E config \in TRConfigs, draw0 \in [{1, 2} -> ParamVals],
          draw \in [1..Len(Modules) -> ParamVals],
          device \in {"cpu", "cuda"}, num_batches \in 0..MaxBatches :
         tr' = [tr EXCEPT !.pc = "built", !.config = config,
                          !.model = MiniGPTNew(config, draw0, draw),
                          !.wandb_run = config.to_log,
                          !.device = device, !.num_batches = num_batches]
    /\ UNCHANGED NotTR

\* The optimizer over model.parameters(), the first checkpoint, the bookkeeping.
TRSetup ==
    /\ tr.pc = "built"
    /\ tr' = [tr EXCEPT !.pc = "loop",
                        !.optimizer = Parameters(tr.model),
                        !.checkpoint = StateDict(tr.model),
                        !.best_train_loss = InitialBestLoss,
                        !.iteration = 0]
    /\ UNCHANGED NotTR

\* One round of `for inputs, targets in train_dataloader`: the loss is computed
\* by model(inputs) before optimizer.step(), and forward_params records the
\* parameters of that forward pass.  The model was
\* never moved to the device, so model(inputs) raises when the inputs are on
\* cuda; wandb.log raises when wandb.init was not called.
TRIterate ==
    /\ tr.pc = "loop"
    /\ Len(tr.losses) < tr.num_batches
    /\ tr.iteration # IterationCap
    /\ IF tr.device = "cuda"
       THEN tr' = [tr EXCEPT !.pc = "raised", !.model.training = TRUE]
       ELSE \E train_loss \in LossVals, update \in [tr.optimizer -> ParamVals] :
            \E stepped \in {OptimizerStep([tr.model EXCEPT !.training = TRUE],
                                          tr.optimizer, update)} :
              LET iteration == tr.iteration + 1
                  improved == train_loss < tr.best_train_loss
                  after ==
                      [tr EXCEPT !.model = stepped,
                                 !.iteration = iteration,
                                 !.loss = train_loss,
                                 !.losses = Append(@, train_loss),
                                 !.forward_params = StateDict(tr.model),
                                 !.best_train_loss =
                                     IF improved THEN train_loss ELSE @,
                                 !.checkpoint =
                                     IF improved THEN StateDict(stepped) ELSE @]
              IN  IF ~LogDue(iteration, tr.config.log_interval)
                  THEN tr' = after
                  ELSE IF ~tr.wandb_run
                  THEN tr' = [after EXCEPT !.pc = "raised"]
                  ELSE \E batch_loss \in LossVals :
                         LET total_loss == NumValBatches * batch_loss
                             val_loss == total_loss \div NumValBatches
                         IN  tr' = [after EXCEPT
                                      !.model.training = FALSE,
                                      !.loss = batch_loss,
                                      !.log = @ \o
                                        <<LogEntry("Training loss", train_loss, iteration),
                                          LogEntry("Validation loss", val_loss, iteration)>>]
    /\ UNCHANGED NotTR

\* The loop is left, at the end of the dataloader or at the break: the print of
\* loss.item() raises when no round has bound loss; then wandb.finish().
TRFinish ==
    /\ tr.pc = "loop"
    /\ Len(tr.losses) = tr.num_batches \/ tr.iteration = IterationCap
    /\ tr' = [tr EXCEPT !.pc = IF tr.iteration = 0 THEN "raised" ELSE "finished",
                        !.wandb_run = IF tr.iteration = 0 THEN @ ELSE FALSE]
    /\ UNCHANGED NotTR

TRNext == TRConstruct \/ TRSetup \/ TRIterate \/ TRFinish

-----------------------------------------------------------------------------
Init == SHAInit /\ MHAInit /\ LNInit /\ TLInit /\ GPTInit /\ LMInit /\ TRInit

\* The training script.
Spec == Init /\ [][TRNext]_vars

SpecAttn == Init /\ [][SHANext]_vars

SpecMHA == Init /\ [][MHANext]_vars

SpecLN == Init /\ [][LNNext]_vars

SpecLayer == Init /\ [][TLNext]_vars

SpecGPT == Init /\ [][GPTNext]_vars

SpecLM == Init /\ [][LMNext]_vars

-----------------------------------------------------------------------------
(***************************************************************************)
(* C1: for every max_len >= 1 the causal_mask buffer is a max_len x        *)
(* max_len matrix whose entry (i, j) is 1 exactly when j > i and 0         *)
(* otherwise: strictly upper triangular, with a zero diagonal.             *)
(***************************************************************************)
C1_MaskStrictlyUpper ==
    sha.pc # "new" =>
        /\ sha.max_len >= 1
        /\ Len(sha.causal_mask) = sha.max_len
        /\ \A i \in 1..sha.max_len :
              /\ Len(sha.causal_mask[i]) = sha.max_len
              /\ \A j \in 1..sha.max_len :
                    sha.causal_mask[i][j] = (IF j > i THEN 1 ELSE 0)

C1_Witness == sha.pc = "ready" /\ sha.max_len = MaxLen /\ sha.causal_mask[1][2] = 1

(***************************************************************************)
(* C2: with dropout disabled, for every input of length n <= max_len and   *)
(* every position i, the attention weight of query i on every key j > i    *)
(* is zero, so two inputs that agree on positions 0..i produce the same    *)
(* output at position i.                                                   *)
(***************************************************************************)
C2_NoFutureAttention ==
    sha.pc = "done" =>
        \A b \in Batch : \A i \in 1..Len(sha.x[b]) : \A j \in 1..Len(sha.x[b]) :
            j > i => sha.res[b].attn[i].num[j] = 0

\* The second half of the claim: outputs at position i agree when the inputs
\* agree up to position i.
C2_PrefixDeterminesOutput ==
    sha.pc = "done" =>
        \A i \in 1..Len(sha.x[1]) :
            (\A k \in 1..i : sha.x[1][k] = sha.x[2][k]) =>
                \A f \in 1..sha.output_value_dim :
                    sha.res[1].out[i].num[f] * sha.res[2].out[i].den
                        = sha.res[2].out[i].num[f] * sha.res[1].out[i].den

OutMeanIsZero(o) ==
    /\ \A k \in 1..Len(o.shift) : o.shift[k] = RInt(0)
    /\ RSum(o.scaled, Len(o.scaled)) = RInt(0)

\* The biased variance along the feature axis: that of the scaled features
\* over the radicand.
OutBiasedVariance(o) == RDiv(RVar(o.scaled, 0), o.radicand)

(***************************************************************************)
(* C7 (as written): the output of LayerNorm.forward (gamma = 1, beta = 0)  *)
(* has, for every token, zero mean and unit biased variance along the      *)
(* feature axis.                                                           *)
(***************************************************************************)
C7_ZeroMeanUnitVariance ==
    ln.pc = "done" =>
        \A i \in 1..Len(ln.out) :
            /\ OutMeanIsZero(ln.out[i])
            /\ OutBiasedVariance(ln.out[i]) = RInt(1)

(***************************************************************************)
(* C7 (amended): every output token has zero mean, and its biased variance *)
(* is v / (v + eps) for v the biased variance of the input token: below    *)
(* one by the eps term, and zero for a token whose features are all equal. *)
(***************************************************************************)
C7_ZeroMeanScaledVariance ==
    ln.pc = "done" =>
        \A i \in 1..Len(ln.out) :
            LET t == [k \in 1..Len(ln.input[i]) |-> RInt(ln.input[i][k])]
                v == RVar(t, 0)
                w == OutBiasedVariance(ln.out[i])
            IN  /\ OutMeanIsZero(ln.out[i])
                /\ w = RDiv(v, RAdd(v, Eps))
                /\ w.n < w.d
                /\ (\A k \in 1..Len(t) : t[k] = t[1]) => w = RInt(0)

C7_Witness ==
    /\ ln.pc = "done"
    /\ ln.input = <<<<-1, 0, 2>>, <<2, 2, 2>>>>
    /\ OutBiasedVariance(ln.out[1]) = Frac(1400000, 1400009)
    /\ OutBiasedVariance(ln.out[2]) = RInt(0)


(***************************************************************************)
(* C5: TransformerLayer.forward is a pre-norm residual block: it computes  *)
(* y = x + attention(norm1(x)) and returns y + feedforward(norm2(y)); each *)
(* sublayer receives the normalized stream, and each residual addition     *)
(* adds the sublayer output to the unnormalized stream (x, then y).        *)
(***************************************************************************)
C5_PreNormResidual ==
    tl.pc = "done" =>
        LET y == tl.x + tl.attention[tl.norm1[tl.x]]
        IN  /\ tl.cache = y
            /\ tl.out = y + tl.feedforward[tl.norm2[y]]
            /\ tl.calls = << [layer |-> "norm1", input |-> tl.x],
                             [layer |-> "attention", input |-> tl.norm1[tl.x]],
                             [layer |-> "norm2", input |-> y],
                             [layer |-> "feedforward", input |-> tl.norm2[y]] >>

\* A run in which both residual additions and both sublayers show in the result.
C5_Witness ==
    /\ tl.pc = "done"
    /\ tl.x = 1 /\ tl.cache = 2 /\ tl.out = 3
    /\ tl.norm1[1] = 0 /\ tl.attention[0] = 1 /\ tl.norm2[2] = 0 /\ tl.feedforward[0] = 1

(***************************************************************************)
(* The stages of MiniGPT.forward in the order of the claim.                *)
(***************************************************************************)
ExpectedTrace(num_layers) ==
    << Stage("vocab_embedding", 0), Stage("positional_embedding", 0),
       Stage("embed_dropout", 0) >>
    \o [k \in 1..num_layers |-> Stage("transformer_layers", k)]
    \o << Stage("prehead_norm", 0), Stage("head", 0) >>

\* forward has ended, by a return or by an exception
GPTEnded == gpt.pc \in {"done", "raised"}

GenerateResultOK ==
    LET L == Len(lm.context)
        k == lm.max_new_tokens
    IN  /\ lm.i = k
        /\ Len(lm.input_stream) = L + k
        /\ SubSeq(lm.input_stream, 1, L) = lm.context
        /\ \A j \in (L + 1)..(L + k) :
              lm.input_stream[j] \in 0..(lm.config.vocab_size - 1)

(***************************************************************************)
(* C8: for a 1-D context of length L >= 1 and every max_new_tokens = k >=  *)
(* 0, generate (of both language models) performs exactly k sampling       *)
(* iterations, each appending exactly one token, and returns a sequence of *)
(* length L + k whose first L tokens are the context and whose appended    *)
(* tokens are vocabulary indices in [0, vocab_size).                       *)
(***************************************************************************)
C8_GenerateAppendsK ==
    /\ lm.pc # "raised"
    /\ lm.pc = "loop" => Len(lm.input_stream) = Len(lm.context) + lm.i
    /\ lm.pc = "done" => GenerateResultOK

\* The claim restricted to BigramLanguageModel.generate.
C8_BigramGenerateAppendsK ==
    lm.kind = "bigram" =>
        /\ lm.pc # "raised"
        /\ lm.pc = "loop" => Len(lm.input_stream) = Len(lm.context) + lm.i
        /\ lm.pc = "done" => GenerateResultOK

(***************************************************************************)
(* C9: BigramLanguageModel.forward applied to input tokens of shape        *)
(* (batch_size, 1) returns logits of shape (batch_size, vocab_size).       *)
(***************************************************************************)
C9_BigramLogitsShape ==
    (lm.pc = "returned" /\ lm.kind = "bigram") =>
        lm.out = <<lm.x[1], lm.config.vocab_size>>

\* What the code returns instead: the token axis is kept.
C9_BigramLogitsShapeKeepsAxis ==
    (lm.pc = "returned" /\ lm.kind = "bigram") =>
        lm.out = <<lm.x[1], 1, lm.config.vocab_size>>


\* C4: when config.weight_tie is true, head.weight and vocab_embedding.weight
\* are one parameter, with one value, after construction (_init_weights
\* included) and after every optimizer step of the training loop.
C4_WeightTying ==
    (tr.pc # "new" /\ tr.config.weight_tie) =>
        /\ tr.model.weight.head = tr.model.weight.vocab_embedding
        /\ StateDict(tr.model).head = StateDict(tr.model).vocab_embedding
        /\ Cardinality(Parameters(tr.model)) = 1

\* C4: a tied model whose parameter two optimizer steps have changed.
C4_Witness ==
    /\ tr.config.weight_tie
    /\ tr.iteration >= 2
    /\ tr.model.weight.head = tr.model.weight.vocab_embedding
    /\ StateDict(tr.model) # tr.checkpoint

\* The "Training loss" entries of the log.
TrainingLossEntries ==
    {k \in 1..Len(tr.log) : tr.log[k].key = "Training loss"}

\* The iterations run so far whose count is a positive multiple of log_interval.
LogIterations ==
    {n \in 1..tr.iteration : n % tr.config.log_interval = 0}

\* C10: a training-loss entry is logged exactly at the iterations whose
\* 1-based count is a positive multiple of config.log_interval, and its value
\* is the loss of the training batch of that iteration.
C10_TrainingLossLogged ==
    tr.pc \in {"loop", "raised", "finished"} =>
        /\ \A n \in LogIterations :
              Cardinality({k \in TrainingLossEntries : tr.log[k].at = n}) = 1
        /\ \A k \in TrainingLossEntries :
              /\ tr.log[k].at \in LogIterations
              /\ tr.log[k].value = tr.losses[tr.log[k].at]

\* C10, for the runs in which wandb.init was called (config.to_log): the
\* entries are logged at exactly those iterations, with that iteration's loss.
C10_TrainingLossLoggedWhenInitialised ==
    tr.config.to_log => C10_TrainingLossLogged

\* C10: a run that has logged the training loss twice, the second time after a
\* validation overwrote loss with another value.
C10_LoggedTwice ==
    /\ Cardinality(TrainingLossEntries) = 2
    /\ tr.log[3].value # tr.log[2].value

\* The minimum of 1000.0 and the training losses observed so far.
MinLossSoFar ==
    LET observed == {InitialBestLoss} \cup {tr.losses[n] : n \in 1..Len(tr.losses)}
    IN  CHOOSE m \in observed : \A l \in observed : m <= l

\* The loss of the latest iteration is below 1000.0 and below every earlier one:
\* the latest iteration is the one of the lowest loss.
LatestIsBest ==
    /\ tr.iteration >= 1
    /\ tr.losses[tr.iteration] < InitialBestLoss
    /\ \A n \in 1..(tr.iteration - 1) : tr.losses[tr.iteration] < tr.losses[n]

\* The script is between two iterations of the training loop, or past the loop.
InTraining == tr.pc \in {"loop", "finished"}

\* C11: after any number of training iterations best_train_loss is the minimum
\* of 1000.0 and the training losses observed so far, and the checkpoint holds
\* the parameters with which the lowest loss was computed: right after the
\* iteration of the lowest loss, the parameters of that iteration's forward pass.
C11_BestCheckpoint ==
    InTraining =>
        /\ tr.best_train_loss = MinLossSoFar
        /\ LatestIsBest => tr.checkpoint = tr.forward_params

\* C11, what the code keeps instead: best_train_loss is that minimum, and
\* the checkpoint written at the iteration of the lowest loss holds the
\* parameters as optimizer.step() of that iteration left them.
C11_CheckpointAfterStep ==
    InTraining =>
        /\ tr.best_train_loss = MinLossSoFar
        /\ LatestIsBest => tr.checkpoint = StateDict(tr.model)

\* C11: best_train_loss alone.
C11_BestLossIsMinimum == InTraining => tr.best_train_loss = MinLossSoFar

\* C11: a run whose second loss is the lowest, saved after a step that changed
\* the parameters, and a run in which no loss was below 1000.0.
C11_SavedAfterChange ==
    /\ tr.iteration = 2 /\ LatestIsBest
    /\ tr.checkpoint # tr.forward_params

C11_NeverBelow ==
    /\ tr.iteration = 2 /\ tr.best_train_loss = InitialBestLoss
=============================================================================
